---- MODULE Spec2Model ----
(***************************************************************************)
(* WaterMarker (src/WaterMarker.go): one main goroutine validates the      *)
(* flags, loads the watermark, builds the opacity mask, lists the source   *)
(* directory, starts one goroutine per directory entry and waits for all   *)
(* of them on a sync.WaitGroup before printing the summary.                *)
(*                                                                         *)
(* Strings are sequences of one-character strings, so that                 *)
(* strings.HasSuffix and string equality are computed, not assumed.        *)
(* Images are modelled by their bounds (the decoded pixel data is not part *)
(* of this state machine); a composed canvas is the record of the draw     *)
(* calls that produced it.  The float64 product scale*height is modelled   *)
(* exactly, with the scale given in tenths.                                *)
(***************************************************************************)
EXTENDS Integers, Sequences, FiniteSets, TLC

\* ------------------------------------------------------------------ bounds

\* Largest number of entries in the source directory.
MaxFiles == 3

\* ----------------------------------------------------------------- strings

sLeft == <<"l", "e", "f", "t">>
sRight == <<"r", "i", "g", "h", "t">>
sCenter == <<"c", "e", "n", "t", "e", "r">>
sJpg == <<".", "j", "p", "g">>
sJpeg == <<".", "j", "p", "e", "g">>
sPng == <<".", "p", "n", "g">>
sPhotos == <<"p", "h", "o", "t", "o", "s">>
sWatermarked == <<"w", "m">>
sWmPng == <<"w", ".", "p", "n", "g">>
sWmGif == <<"w", ".", "g", "i", "f">>

\* strings.HasSuffix(s, suffix)
HasSuffix(s, suffix) ==
    /\ Len(s) >= Len(suffix)
    /\ SubSeq(s, Len(s) - Len(suffix) + 1, Len(s)) = suffix

\* path.Join(dir, name) for a directory entry name (no separator in name):
\* dir, "/", name.
PathJoin(dir, name) == dir \o <<"/">> \o name

\* Directory entry names, in the order ioutil.ReadDir returns them (sorted by
\* file name, byte order).
NameUniverse ==
    << <<"a", ".", "j", "p", "g">>,
       <<"b", ".", "j", "p", "e", "g">>,
       <<"c", ".", "J", "P", "G">>,
       <<"d", ".", "p", "n", "g">>,
       <<"j", "p", "g">> >>

Names == {NameUniverse[k] : k \in DOMAIN NameUniverse}

\* ------------------------------------------------------------ file contents

NoImage == [kind |-> "none", w |-> 0, h |-> 0]
Jpeg(w, h) == [kind |-> "jpeg", w |-> w, h |-> h]
Png(w, h) == [kind |-> "png", w |-> w, h |-> h]
Corrupt == [kind |-> "corrupt", w |-> 0, h |-> 0]
Unreadable == [kind |-> "unreadable", w |-> 0, h |-> 0]
Missing == [kind |-> "missing", w |-> 0, h |-> 0]

\* What each source entry may hold.  The entries that the extension filter
\* rejects hold a valid JPEG under an upper-case extension, a broken file and
\* an unreadable one.
ContentChoices(name) ==
    CASE name = NameUniverse[1] -> {Jpeg(100, 200), Corrupt}
      [] name = NameUniverse[2] -> {Jpeg(10, 6), Unreadable}
      [] name = NameUniverse[3] -> {Jpeg(100, 200)}
      [] name = NameUniverse[4] -> {Corrupt}
      [] OTHER -> {Unreadable}

WatermarkFiles == {Missing, Corrupt, Png(50, 25)}

Opacities == {70, 100}
Locations == {sLeft, sRight, sCenter}
ScaleTenths == {1, 10}

\* The k-th smallest element first: the sorted sequence of a set of indices.
RECURSIVE SortedSeq(_)
SortedSeq(S) ==
    IF S = {} THEN <<>>
    ELSE LET m == CHOOSE x \in S : \A y \in S : x <= y
         IN <<m>> \o SortedSeq(S \ {m})

\* The listing of a directory holding the entries with indices S.
Listing(S) == [k \in 1..Cardinality(S) |-> NameUniverse[SortedSeq(S)[k]]]

\* The directories with at most MaxFiles entries.
Directories ==
    UNION { { d \in [S -> UNION {ContentChoices(n) : n \in S}] :
                \A n \in S : d[n] \in ContentChoices(n) } :
            S \in {T \in SUBSET Names : Cardinality(T) <= MaxFiles} }

\* ioutil.ReadDir(dir): the entry names, sorted by file name.
ReadDir(dir) ==
    Listing({k \in DOMAIN NameUniverse : NameUniverse[k] \in DOMAIN dir})

\* ------------------------------------------------------------------- state

VARIABLES
    params,       \* the parsed flags (lines 23-31)
    fsWatermark,  \* what the file at *paramWatermark holds
    fsSource,     \* "missing", "dir" or "file": what *paramSourceDir is
    srcDir,       \* the source directory: entry name -> content
    fsTarget,     \* what *paramTargetDir is: "missing", "dir" (it was there
                  \* at startup) or "created" (made by line 79)
    targetDir,    \* the target directory: entry name -> content
    mpc,          \* where main is
    watermark,    \* main's watermark (line 83)
    mask,         \* main's mask: the alpha of the uniform image (line 84)
    files,        \* main's files (line 85)
    wg,           \* the WaitGroup counter
    tasks,        \* the goroutines started so far, in dispatch order
    summary,      \* the count printed by "All done!", or NotReported
    exited,       \* the process has ended
    exitCode,     \* its exit status
    opened,       \* history: the paths passed to os.Open
    created,      \* history: <<task, path>> for every os.Create call
    wmLoads,      \* history: how many times the watermark was decoded
    maskBuilds,   \* history: how many times the mask was built
    draw          \* the pixels of one task's lines 102-116 (SpecDraw only)

vars == <<params, fsWatermark, fsSource, srcDir, fsTarget, targetDir, mpc,
          watermark, mask, files, wg, tasks, summary, exited, exitCode,
          opened, created, wmLoads, maskBuilds, draw>>

fsVars == <<fsWatermark, fsSource, srcDir>>
histVars == <<opened, created, wmLoads, maskBuilds>>

NotReported == -1
NoMask == -1
NoCanvas == [w |-> 0, h |-> 0, wmW |-> 0, wmH |-> 0, offX |-> 0, offY |-> 0, alpha |-> NoMask]
OldFile == [kind |-> "old"]
Truncated == [kind |-> "truncated"]
Written(canvas) == [kind |-> "output", canvas |-> canvas]

\* Spec follows the images by their bounds only and leaves draw alone.
NoDraw == [pc |-> "none"]

\* The four pre-flight conditions of lines 53-80, as a predicate of the inputs.
ConfigError(p, wm, src, tgt) ==
    \/ wm.kind = "missing"
    \/ ~HasSuffix(p.watermark, sPng)
    \/ src = "missing"
    \/ (tgt = "dir" /\ ~p.force)

\* The flag defaults of lines 24-25, and a directory, for the runs that never
\* read them.
UnreadOpacity == 70
UnreadLocation == sRight
UnreadScale == 1
UnreadDir == (NameUniverse[1] :> Jpeg(100, 200)) @@ (NameUniverse[4] :> Corrupt)

\* The flags and the file system the program is started with.  A run that a
\* pre-flight check ends never reads opacity, location, scale or the directory
\* entries, so those are fixed in such runs.
Init ==
    /\ params \in [opacity : Opacities, location : Locations, scale : ScaleTenths,
                   watermark : {sWmPng, sWmGif}, sourceDir : {sPhotos},
                   targetDir : {sWatermarked}, force : BOOLEAN]
    /\ fsWatermark \in WatermarkFiles
    /\ fsSource \in {"missing", "dir", "file"}
    /\ srcDir \in Directories
    /\ fsTarget \in {"missing", "dir"}
    /\ \/ ~ConfigError(params, fsWatermark, fsSource, fsTarget)
       \/ /\ params.opacity = UnreadOpacity
          /\ params.location = UnreadLocation
          /\ params.scale = UnreadScale
          /\ srcDir = UnreadDir
    /\ (fsSource = "file" \/ fsWatermark.kind = "corrupt") => srcDir = UnreadDir
    /\ targetDir = IF fsTarget = "dir" THEN (NameUniverse[1] :> OldFile) ELSE <<>>
    /\ mpc = "checkWatermark"
    /\ watermark = NoImage
    /\ mask = NoMask
    /\ files = <<>>
    /\ wg = 0
    /\ tasks = <<>>
    /\ summary = NotReported
    /\ exited = FALSE
    /\ exitCode = 0
    /\ opened = {}
    /\ created = {}
    /\ wmLoads = 0
    /\ maskBuilds = 0
    /\ draw = NoDraw

\* ------------------------------------------------------------ main, 53-91

\* log.Fatalf / log.Fatal in main: the message is printed, os.Exit(1) follows.
MainFatal ==
    /\ mpc' = "fatal"
    /\ UNCHANGED <<watermark, mask, files, wg, tasks, summary, exited, exitCode,
                   fsTarget, targetDir, opened, wmLoads, maskBuilds>>

\* Lines 53-56: os.Stat(*paramWatermark) reports that the file does not exist.
CheckWatermark ==
    /\ ~exited /\ mpc = "checkWatermark"
    /\ IF fsWatermark.kind = "missing"
       THEN MainFatal
       ELSE /\ mpc' = "checkPng"
            /\ UNCHANGED <<watermark, mask, files, wg, tasks, summary, exited,
                           exitCode, fsTarget, targetDir, opened, wmLoads, maskBuilds>>
    /\ UNCHANGED <<params, fsVars, draw, created>>

\* Lines 58-61: the watermark name must end in ".png".
CheckPng ==
    /\ ~exited /\ mpc = "checkPng"
    /\ IF ~HasSuffix(params.watermark, sPng)
       THEN MainFatal
       ELSE /\ mpc' = "checkSource"
            /\ UNCHANGED <<watermark, mask, files, wg, tasks, summary, exited,
                           exitCode, fsTarget, targetDir, opened, wmLoads, maskBuilds>>
    /\ UNCHANGED <<params, fsVars, draw, created>>

\* Lines 63-66: the source directory must exist.
CheckSource ==
    /\ ~exited /\ mpc = "checkSource"
    /\ IF fsSource = "missing"
       THEN MainFatal
       ELSE /\ mpc' = "checkTarget"
            /\ UNCHANGED <<watermark, mask, files, wg, tasks, summary, exited,
                           exitCode, fsTarget, targetDir, opened, wmLoads, maskBuilds>>
    /\ UNCHANGED <<params, fsVars, draw, created>>

\* CheckTarget with the os.Exit(1) of line 76 forgotten.
CheckTargetNoExit ==
    /\ ~exited /\ mpc = "checkTarget"
    /\ IF fsTarget = "dir"
       THEN UNCHANGED <<fsTarget, targetDir>>
       ELSE /\ fsTarget' = "created"
            /\ targetDir' = <<>>
    /\ mpc' = "loadWatermark"
    /\ UNCHANGED <<params, fsVars, draw, watermark, mask, files, wg, tasks, summary,
                   exited, exitCode, histVars>>

\* Lines 68-80: an existing target directory ends the run with os.Exit(1)
\* unless --force is given; a missing one is created.
CheckTarget ==
    /\ ~exited /\ mpc = "checkTarget"
    /\ IF fsTarget = "dir"
       THEN IF params.force
            THEN /\ mpc' = "loadWatermark"
                 /\ UNCHANGED <<exited, exitCode, fsTarget, targetDir>>
            ELSE /\ exited' = TRUE
                 /\ exitCode' = 1
                 /\ UNCHANGED <<mpc, fsTarget, targetDir>>
       ELSE /\ fsTarget' = "created"
            /\ targetDir' = <<>>
            /\ mpc' = "loadWatermark"
            /\ UNCHANGED <<exited, exitCode>>
    /\ UNCHANGED <<params, fsVars, draw, watermark, mask, files, wg, tasks, summary,
                   histVars>>

\* openImage(fname, "png"), lines 155-176, called at line 83.
LoadWatermark ==
    /\ ~exited /\ mpc = "loadWatermark"
    /\ opened' = opened \cup {params.watermark}
    /\ IF fsWatermark.kind = "png"
       THEN /\ watermark' = fsWatermark
            /\ wmLoads' = wmLoads + 1
            /\ mpc' = "makeMask"
       ELSE /\ mpc' = "fatal"
            /\ UNCHANGED <<watermark, wmLoads>>
    /\ UNCHANGED <<params, fsVars, draw, fsTarget, targetDir, mask, files, wg, tasks,
                   summary, exited, exitCode, created, maskBuilds>>

\* uint8(*paramOpacity * 255), line 84: the product of two ints, converted to
\* uint8 by keeping its low eight bits.
MaskAlpha(opacity) == (opacity * 255) % 256

\* Line 84.
MakeMask ==
    /\ ~exited /\ mpc = "makeMask"
    /\ mask' = MaskAlpha(params.opacity)
    /\ maskBuilds' = maskBuilds + 1
    /\ mpc' = "getFiles"
    /\ UNCHANGED <<params, fsVars, draw, fsTarget, targetDir, watermark, files, wg,
                   tasks, summary, exited, exitCode, opened, created, wmLoads>>

\* getFiles(*paramSourceDir), lines 131-137, called at line 85.
GetFiles ==
    /\ ~exited /\ mpc = "getFiles"
    /\ IF fsSource = "dir"
       THEN /\ files' = ReadDir(srcDir)
            /\ mpc' = "wgAdd"
       ELSE /\ mpc' = "fatal"
            /\ UNCHANGED files
    /\ UNCHANGED <<params, fsVars, draw, fsTarget, targetDir, watermark, mask, wg,
                   tasks, summary, exited, exitCode, histVars>>

\* wg.Add(len(files)), line 90.
WgAdd ==
    /\ ~exited /\ mpc = "wgAdd"
    /\ wg' = wg + Len(files)
    /\ mpc' = "dispatch"
    /\ UNCHANGED <<params, fsVars, draw, fsTarget, targetDir, watermark, mask, files,
                   tasks, summary, exited, exitCode, histVars>>

\* ------------------------------------------------- main, 92-128, and exit

\* The arguments of the go statement, line 119, bound to the parameters of
\* line 93 in order: file, watermark, mask, watermarkLocation, watermarkScale,
\* sourceDir, targetDir.  The watermark and the mask are passed as references
\* to the objects main built; a task reads them through the variables
\* watermark and mask.
TaskArgs(file) ==
    [file |-> file,
     watermarkLocation |-> params.watermark,
     watermarkScale |-> params.scale,
     sourceDir |-> params.sourceDir,
     targetDir |-> params.targetDir]

NewTask(file) ==
    [pc |-> "start", args |-> TaskArgs(file), srcImage |-> NoImage,
     canvas |-> NoCanvas]

\* One iteration of the loop of line 92: the go statement of lines 93-119.
Dispatch ==
    /\ ~exited /\ mpc = "dispatch"
    /\ Len(tasks) < Len(files)
    /\ tasks' = Append(tasks, NewTask(files[Len(tasks) + 1]))
    /\ UNCHANGED <<params, fsVars, draw, fsTarget, targetDir, mpc, watermark, mask,
                   files, wg, summary, exited, exitCode, histVars>>

\* The loop of line 92 ends.
DispatchEnd ==
    /\ ~exited /\ mpc = "dispatch"
    /\ Len(tasks) = Len(files)
    /\ mpc' = "wait"
    /\ UNCHANGED <<params, fsVars, draw, fsTarget, targetDir, watermark, mask, files,
                   wg, tasks, summary, exited, exitCode, histVars>>

\* Wait with the wg.Wait() call forgotten.
WaitNoBarrier ==
    /\ ~exited /\ mpc = "wait"
    /\ mpc' = "summary"
    /\ UNCHANGED <<params, fsVars, draw, fsTarget, targetDir, watermark, mask, files,
                   wg, tasks, summary, exited, exitCode, histVars>>

\* wg.Wait(), line 121: returns when the counter is zero.
Wait ==
    /\ ~exited /\ mpc = "wait"
    /\ wg = 0
    /\ mpc' = "summary"
    /\ UNCHANGED <<params, fsVars, draw, fsTarget, targetDir, watermark, mask, files,
                   wg, tasks, summary, exited, exitCode, histVars>>

\* The count printed at line 124.
SummaryCount == Len(files)

\* Line 124.
Summary ==
    /\ ~exited /\ mpc = "summary"
    /\ summary' = SummaryCount
    /\ mpc' = "done"
    /\ UNCHANGED <<params, fsVars, draw, fsTarget, targetDir, watermark, mask, files,
                   wg, tasks, exited, exitCode, histVars>>

\* Lines 125-129: main returns after the key press and the process ends.
MainReturn ==
    /\ ~exited /\ mpc = "done"
    /\ exited' = TRUE
    /\ exitCode' = 0
    /\ UNCHANGED <<params, fsVars, draw, fsTarget, targetDir, mpc, watermark, mask,
                   files, wg, tasks, summary, histVars>>

\* A goroutine is inside log.Fatalf / log.Fatal.
SomeFatal == mpc = "fatal" \/ \E t \in DOMAIN tasks : tasks[t].pc = "fatal"

\* FatalExit with a failing task logging and returning instead of ending the
\* process.
FatalExitTaskReturns ==
    /\ ~exited /\ SomeFatal
    /\ IF mpc = "fatal"
       THEN /\ exited' = TRUE
            /\ exitCode' = 1
            /\ UNCHANGED tasks
       ELSE /\ \E t \in DOMAIN tasks :
                  /\ tasks[t].pc = "fatal"
                  /\ tasks' = [tasks EXCEPT ![t].pc = "return"]
            /\ UNCHANGED <<exited, exitCode>>
    /\ UNCHANGED <<params, fsVars, draw, fsTarget, targetDir, mpc, watermark, mask,
                   files, wg, summary, histVars>>

\* The os.Exit(1) that ends log.Fatalf (lines 55, 60, 65, 134, 143, 151, 158,
\* 166, 170): the process ends, whatever the other goroutines are doing.
FatalExit ==
    /\ ~exited /\ SomeFatal
    /\ exited' = TRUE
    /\ exitCode' = 1
    /\ UNCHANGED <<params, fsVars, draw, fsTarget, targetDir, mpc, watermark, mask,
                   files, wg, tasks, summary, histVars>>

\* ------------------------------------------------------ the task, 93-119

\* The condition of line 95, negated: the entry is processed.
Eligible(name) == HasSuffix(name, sJpg) \/ HasSuffix(name, sJpeg)

\* uint(watermarkScale * float64(imgSize.Dy())), line 104, the scale in tenths.
TargetHeight(scale, dy) == (scale * dy) \div 10

\* The bounds of resize.Resize(0, height, img, resize.NearestNeighbor), line
\* 104 (github.com/nfnt/resize).  With width 0 the library keeps the aspect
\* ratio: width = uint(0.7 + Dx / (Dy / height)); with width and height both 0
\* the scale factors are 1 and the input image is returned.
ResizeBounds(height, img) ==
    IF height = 0
    THEN [w |-> img.w, h |-> img.h]
    ELSE [w |-> (7 * img.h + 10 * img.w * height) \div (10 * img.h), h |-> height]

\* WatermarkOffset with "right" as the placement of every location that is
\* not "left".
WatermarkOffsetDefaultRight(watermarkLocation, imgSize, wmSize) ==
    IF watermarkLocation = sLeft
    THEN [x |-> 0, y |-> imgSize.h - wmSize.h]
    ELSE [x |-> imgSize.w - wmSize.w, y |-> imgSize.h - wmSize.h]

\* Lines 108-113: the zero Point unless the location is "left" or "right".
\* Both images have their Min at (0,0), so Max is the size.
WatermarkOffset(watermarkLocation, imgSize, wmSize) ==
    IF watermarkLocation = sLeft
    THEN [x |-> 0, y |-> imgSize.h - wmSize.h]
    ELSE IF watermarkLocation = sRight
    THEN [x |-> imgSize.w - wmSize.w, y |-> imgSize.h - wmSize.h]
    ELSE [x |-> 0, y |-> 0]

\* Line 104: the bounds of the task's scaledWatermark.
ScaledWatermark(task) ==
    ResizeBounds(TargetHeight(task.args.watermarkScale, task.srcImage.h), watermark)

\* Lines 102-116: the canvas has the source image's bounds; the scaled
\* watermark is drawn over it at the offset, through the mask.
Compose(task) ==
    LET imgSize == task.srcImage
        wmSize == ScaledWatermark(task)
        off == WatermarkOffset(task.args.watermarkLocation, imgSize, wmSize)
    IN [w |-> imgSize.w, h |-> imgSize.h, wmW |-> wmSize.w, wmH |-> wmSize.h,
        offX |-> off.x, offY |-> off.y, alpha |-> mask]

\* SavePath with a fixed output name in place of fname.
SavePathFixedName(task) == PathJoin(task.args.targetDir, <<"o", "u", "t">> \o sJpg)

\* path.Join(pname, fname), line 140.
SavePath(task) == PathJoin(task.args.targetDir, task.args.file)

\* TaskFilter with the .jpeg test forgotten.
TaskFilterJpgOnly(t) ==
    /\ ~exited /\ tasks[t].pc = "start"
    /\ tasks' = [tasks EXCEPT ![t].pc =
                    IF HasSuffix(tasks[t].args.file, sJpg) THEN "open" ELSE "return"]
    /\ UNCHANGED <<params, fsVars, draw, fsTarget, targetDir, mpc, watermark, mask,
                   files, wg, summary, exited, exitCode, histVars>>

\* TaskFilter with the return of line 97 forgotten.
TaskFilterNoReturn(t) ==
    /\ ~exited /\ tasks[t].pc = "start"
    /\ tasks' = [tasks EXCEPT ![t].pc = "open"]
    /\ UNCHANGED <<params, fsVars, draw, fsTarget, targetDir, mpc, watermark, mask,
                   files, wg, summary, exited, exitCode, histVars>>

\* TaskFilter with wg.Done() called at the end of the task body instead of
\* deferred: the return of line 97 ends the task without it.
TaskFilterSkipNoDone(t) ==
    /\ ~exited /\ tasks[t].pc = "start"
    /\ tasks' = [tasks EXCEPT ![t].pc =
                    IF Eligible(tasks[t].args.file) THEN "open" ELSE "done"]
    /\ UNCHANGED <<params, fsVars, draw, fsTarget, targetDir, mpc, watermark, mask,
                   files, wg, summary, exited, exitCode, histVars>>

\* Lines 95-98: an entry that is neither .jpg nor .jpeg is skipped; the
\* return runs the deferred wg.Done of line 94.
TaskFilter(t) ==
    /\ ~exited /\ tasks[t].pc = "start"
    /\ tasks' = [tasks EXCEPT ![t].pc =
                    IF Eligible(tasks[t].args.file) THEN "open" ELSE "return"]
    /\ UNCHANGED <<params, fsVars, draw, fsTarget, targetDir, mpc, watermark, mask,
                   files, wg, summary, exited, exitCode, histVars>>

\* os.Open in openImage, lines 156-159, called at line 100.
TaskOpen(t) ==
    /\ ~exited /\ tasks[t].pc = "open"
    /\ opened' = opened \cup {PathJoin(tasks[t].args.sourceDir, tasks[t].args.file)}
    /\ tasks' = [tasks EXCEPT ![t].pc =
                    IF srcDir[tasks[t].args.file].kind = "unreadable"
                    THEN "fatal" ELSE "decode"]
    /\ UNCHANGED <<params, fsVars, draw, fsTarget, targetDir, mpc, watermark, mask,
                   files, wg, summary, exited, exitCode, created, wmLoads,
                   maskBuilds>>

\* TaskDecode in a goroutine that reads the loop variable of line 92 instead
\* of its own file argument: it decodes the entry the loop has reached.
TaskDecodeLoopVariable(t) ==
    /\ ~exited /\ tasks[t].pc = "decode"
    /\ LET content == srcDir[files[Len(tasks)]]
       IN tasks' = IF content.kind = "jpeg"
                   THEN [tasks EXCEPT ![t].pc = "compose", ![t].srcImage = content]
                   ELSE [tasks EXCEPT ![t].pc = "fatal"]
    /\ UNCHANGED <<params, fsVars, draw, fsTarget, targetDir, mpc, watermark, mask,
                   files, wg, summary, exited, exitCode, histVars>>

\* jpeg.Decode in openImage, lines 164-167.
TaskDecode(t) ==
    /\ ~exited /\ tasks[t].pc = "decode"
    /\ LET content == srcDir[tasks[t].args.file]
       IN tasks' = IF content.kind = "jpeg"
                   THEN [tasks EXCEPT ![t].pc = "compose", ![t].srcImage = content]
                   ELSE [tasks EXCEPT ![t].pc = "fatal"]
    /\ UNCHANGED <<params, fsVars, draw, fsTarget, targetDir, mpc, watermark, mask,
                   files, wg, summary, exited, exitCode, histVars>>

\* TaskCompose with the resized image assigned to the shared watermark
\* instead of a variable of the task.
TaskComposeRebindsWatermark(t) ==
    /\ ~exited /\ tasks[t].pc = "compose"
    /\ tasks' = [tasks EXCEPT ![t].pc = "create", ![t].canvas = Compose(tasks[t])]
    /\ watermark' = Png(ScaledWatermark(tasks[t]).w, ScaledWatermark(tasks[t]).h)
    /\ UNCHANGED <<params, fsVars, draw, fsTarget, targetDir, mpc, mask,
                   files, wg, summary, exited, exitCode, histVars>>

\* Lines 102-116.
TaskCompose(t) ==
    /\ ~exited /\ tasks[t].pc = "compose"
    /\ tasks' = [tasks EXCEPT ![t].pc = "create", ![t].canvas = Compose(tasks[t])]
    /\ UNCHANGED <<params, fsVars, draw, fsTarget, targetDir, mpc, watermark, mask,
                   files, wg, summary, exited, exitCode, histVars>>

\* os.Create in saveImage, lines 140-144, called at line 118: the file is
\* created or truncated, or the call fails.
TaskCreate(t) ==
    /\ ~exited /\ tasks[t].pc = "create"
    /\ created' = created \cup {<<t, SavePath(tasks[t])>>}
    /\ \E ok \in BOOLEAN :
          IF ok
          THEN /\ targetDir' = (tasks[t].args.file :> Truncated) @@ targetDir
               /\ tasks' = [tasks EXCEPT ![t].pc = "encode"]
          ELSE /\ tasks' = [tasks EXCEPT ![t].pc = "fatal"]
               /\ UNCHANGED targetDir
    /\ UNCHANGED <<params, fsVars, draw, fsTarget, mpc, watermark, mask, files, wg,
                   summary, exited, exitCode, opened, wmLoads, maskBuilds>>

\* jpeg.Encode in saveImage, lines 147-153, and the return of saveImage.
TaskEncode(t) ==
    /\ ~exited /\ tasks[t].pc = "encode"
    /\ \E ok \in BOOLEAN :
          IF ok
          THEN /\ targetDir' = (tasks[t].args.file :> Written(tasks[t].canvas))
                                  @@ targetDir
               /\ tasks' = [tasks EXCEPT ![t].pc = "return"]
          ELSE /\ tasks' = [tasks EXCEPT ![t].pc = "fatal"]
               /\ UNCHANGED targetDir
    /\ UNCHANGED <<params, fsVars, draw, fsTarget, mpc, watermark, mask, files, wg,
                   summary, exited, exitCode, histVars>>

\* The goroutine returns: the deferred wg.Done() of line 94.
TaskReturn(t) ==
    /\ ~exited /\ tasks[t].pc = "return"
    /\ wg' = wg - 1
    /\ tasks' = [tasks EXCEPT ![t].pc = "done"]
    /\ UNCHANGED <<params, fsVars, draw, fsTarget, targetDir, mpc, watermark, mask,
                   files, summary, exited, exitCode, histVars>>

\* ----------------------------------------------------------- specification

Next ==
    \/ CheckWatermark
    \/ CheckPng
    \/ CheckSource
    \/ CheckTarget
    \/ LoadWatermark
    \/ MakeMask
    \/ GetFiles
    \/ WgAdd
    \/ Dispatch
    \/ DispatchEnd
    \/ Wait
    \/ Summary
    \/ MainReturn
    \/ FatalExit
    \/ \E t \in DOMAIN tasks : TaskFilter(t)
    \/ \E t \in DOMAIN tasks : TaskOpen(t)
    \/ \E t \in DOMAIN tasks : TaskDecode(t)
    \/ \E t \in DOMAIN tasks : TaskCompose(t)
    \/ \E t \in DOMAIN tasks : TaskCreate(t)
    \/ \E t \in DOMAIN tasks : TaskEncode(t)
    \/ \E t \in DOMAIN tasks : TaskReturn(t)

Spec == Init /\ [][Next]_vars

\* The steps of the main goroutine.
MainNext ==
    \/ CheckWatermark \/ CheckPng \/ CheckSource \/ CheckTarget
    \/ LoadWatermark \/ MakeMask \/ GetFiles \/ WgAdd
    \/ Dispatch \/ DispatchEnd \/ Wait \/ Summary \/ MainReturn

\* The steps of the t-th goroutine started by the loop of line 92.
TaskNext(t) ==
    /\ t \in DOMAIN tasks
    /\ \/ TaskFilter(t) \/ TaskOpen(t) \/ TaskDecode(t) \/ TaskCompose(t)
       \/ TaskCreate(t) \/ TaskEncode(t) \/ TaskReturn(t)

\* The Go scheduler runs every goroutine that can run: main, each task, and
\* the os.Exit of a goroutine that is inside log.Fatalf.
SpecFair ==
    /\ Spec
    /\ WF_vars(MainNext)
    /\ WF_vars(FatalExit)
    /\ \A t \in 1..MaxFiles : WF_vars(TaskNext(t))

\* ------------------------------------------------- the pixels, 102-116
\*
\* SpecDraw follows one task through lines 107-116 with the pixels of its
\* images.  One colour channel stands for the three (image/draw computes
\* red, green and blue with the same expression).  A decoded JPEG is opaque:
\* its pixel is the channel value.  The scaled watermark is an image.NRGBA:
\* its pixel is [c, a], not premultiplied.  The canvas is an image.RGBA: its
\* pixel is [c, a], premultiplied.

\* Largest width and height of the decoded source image; the scaled
\* watermark may be one pixel larger each way.
MaxSide == 2

\* The largest 16-bit channel value, m in image/draw.
M16 == 65535

Points(w, h) == (0..(w - 1)) \X (0..(h - 1))

\* A decoded source image of w x h pixels, every pixel a different uint8.
SourcePixels(w, h) ==
    [w |-> w, h |-> h, pix |-> [p \in Points(w, h) |-> (10 + 40 * p[1] + 90 * p[2]) % 256]]

\* The alpha of the watermark pixel p: the same everywhere, or ("mixed")
\* opaque and translucent pixels in turn.
WatermarkAlpha(kind, p) ==
    CASE kind = "opaque" -> 255
      [] kind = "clear" -> 0
      [] kind = "half" -> 128
      [] OTHER -> IF (p[1] + p[2]) % 2 = 0 THEN 255 ELSE 64

\* A scaled watermark of w x h pixels, every pixel a different colour.
WatermarkPixels(w, h, kind) ==
    [w |-> w, h |-> h,
     pix |-> [p \in Points(w, h) |->
                 [c |-> (250 - 30 * p[1] - 70 * p[2]) % 256, a |-> WatermarkAlpha(kind, p)]]]

AlphaKinds == {"opaque", "clear", "half", "mixed"}

\* Opacities whose masks are 0, 255, 186 and 156.
DrawOpacities == {0, 1, 70, 100}

\* image.Rectangle
Rect(x0, y0, x1, y1) == [minX |-> x0, minY |-> y0, maxX |-> x1, maxY |-> y1]
Bounds(img) == Rect(0, 0, img.w, img.h)
RectEmpty(r) == r.minX >= r.maxX \/ r.minY >= r.maxY
RectAdd(r, p) == Rect(r.minX + p.x, r.minY + p.y, r.maxX + p.x, r.maxY + p.y)
Max2(a, b) == IF a > b THEN a ELSE b
Min2(a, b) == IF a < b THEN a ELSE b

\* Rectangle.Intersect: the zero Rectangle when the intersection is empty.
RectIntersect(r, q) ==
    LET i == Rect(Max2(r.minX, q.minX), Max2(r.minY, q.minY),
                  Min2(r.maxX, q.maxX), Min2(r.maxY, q.maxY))
    IN IF RectEmpty(i) THEN Rect(0, 0, 0, 0) ELSE i

\* clip of image/draw: r is cut to the destination's bounds and to the
\* source's bounds moved to r's origin, and sp moves with r's origin.  The
\* uniform mask is unbounded and cuts nothing.
Clip(dstBounds, r, srcBounds, sp) ==
    LET r1 == RectIntersect(r, dstBounds)
        r2 == RectIntersect(r1, RectAdd(srcBounds, [x |-> r.minX - sp.x, y |-> r.minY - sp.y]))
    IN [r |-> r2,
        sp |-> [x |-> sp.x + (r2.minX - r.minX), y |-> sp.y + (r2.minY - r.minY)]]

InRect(p, r) == r.minX <= p[1] /\ p[1] < r.maxX /\ r.minY <= p[2] /\ p[2] < r.maxY

\* image.NewRGBA(imgSize), line 107: every pixel transparent black.
NewRGBA(imgSize) ==
    [w |-> imgSize.w, h |-> imgSize.h,
     pix |-> [p \in Points(imgSize.w, imgSize.h) |-> [c |-> 0, a |-> 0]]]

\* draw.Draw(canvas, r, src, sp, draw.Src), line 115, for an opaque source:
\* inside the clipped r the canvas pixel becomes the source pixel, alpha 255.
DrawSrc(canvas, r, src, sp) ==
    LET k == Clip(Bounds(canvas), r, Bounds(src), sp)
    IN [canvas EXCEPT !.pix =
          [p \in DOMAIN canvas.pix |->
              IF ~RectEmpty(k.r) /\ InRect(p, k.r)
              THEN [c |-> src.pix[<<k.sp.x + (p[1] - k.r.minX),
                                    k.sp.y + (p[2] - k.r.minY)>>],
                    a |-> 255]
              ELSE canvas.pix[p]]]

\* color.NRGBA.RGBA(): the 16-bit premultiplied channel and alpha.
NRGBA16(px) == [c |-> ((px.c * 257) * px.a) \div 255, a |-> px.a * 257]

\* u * v for 16-bit u and v, as its quotient and remainder by m = 65535.  The
\* code multiplies in uint32; the product is formed here from 8-bit halves,
\* u*v = hi * 65536 + lo = hi * m + (hi + lo), to stay within the checker's
\* integers.  The value is exact.
MulM16(u, v) ==
    LET u1 == u \div 256
        u0 == u % 256
        v1 == v \div 256
        v0 == v % 256
        mid == u1 * v0 + u0 * v1
        low == (mid % 256) * 256 + u0 * v0
        hi == u1 * v1 + (mid \div 256) + (low \div 65536)
        lo == low % 65536
    IN [q |-> hi + ((hi + lo) \div M16), r |-> (hi + lo) % M16]

\* uint8((x + y) / m >> 8) for the products x and y.
Channel8(x, y) == ((x.q + y.q + ((x.r + y.r) \div M16)) \div 256) % 256

\* OverPixel with the source pixel's own alpha ignored: the source is blended
\* as if it were opaque.
OverPixelOpaqueSource(d, s, ma) ==
    LET na == M16 - MulM16(M16, ma).q
    IN [c |-> Channel8(MulM16(d.c * 257, na), MulM16(s.c * 257, ma)),
        a |-> Channel8(MulM16(d.a * 257, na), MulM16(M16, ma))]

\* One pixel of drawRGBA with op Over: d the canvas pixel, s the source
\* pixel, ma the mask's 16-bit alpha.  a = (m - sa*ma/m) * 0x101, and each
\* channel becomes uint8((d*a + s*ma) / m >> 8).
OverPixel(d, s, ma) ==
    LET s16 == NRGBA16(s)
        na == M16 - MulM16(s16.a, ma).q
    IN [c |-> Channel8(MulM16(d.c * 257, na), MulM16(s16.c, ma)),
        a |-> Channel8(MulM16(d.a * 257, na), MulM16(s16.a, ma))]

\* DrawMaskOver that draws nothing unless the whole source fits into r and
\* the canvas.
DrawMaskOverWholeOnly(canvas, r, src, sp, maskAlpha) ==
    LET k == Clip(Bounds(canvas), r, Bounds(src), sp)
        whole == k.r.maxX - k.r.minX = src.w /\ k.r.maxY - k.r.minY = src.h
    IN [canvas EXCEPT !.pix =
          [p \in DOMAIN canvas.pix |->
              IF whole /\ ~RectEmpty(k.r) /\ InRect(p, k.r)
              THEN OverPixel(canvas.pix[p],
                             src.pix[<<k.sp.x + (p[1] - k.r.minX),
                                       k.sp.y + (p[2] - k.r.minY)>>],
                             maskAlpha * 257)
              ELSE canvas.pix[p]]]

\* draw.DrawMask(canvas, r, src, sp, mask, image.Point{0, 0}, draw.Over),
\* line 116, mask an image.Uniform of color.Alpha{maskAlpha}.
DrawMaskOver(canvas, r, src, sp, maskAlpha) ==
    LET k == Clip(Bounds(canvas), r, Bounds(src), sp)
    IN [canvas EXCEPT !.pix =
          [p \in DOMAIN canvas.pix |->
              IF ~RectEmpty(k.r) /\ InRect(p, k.r)
              THEN OverPixel(canvas.pix[p],
                             src.pix[<<k.sp.x + (p[1] - k.r.minX),
                                       k.sp.y + (p[2] - k.r.minY)>>],
                             maskAlpha * 257)
              ELSE canvas.pix[p]]]

mainVars == <<params, fsWatermark, fsSource, srcDir, fsTarget, targetDir, mpc,
              watermark, mask, files, wg, tasks, summary, exited, exitCode,
              opened, created, wmLoads, maskBuilds>>

\* One task about to run line 107: main has built the mask (line 84), the task
\* has decoded its source image (line 100) and resized the watermark (line
\* 104).  The flags pass the pre-flight checks.
InitDraw ==
    /\ params \in [opacity : DrawOpacities, location : Locations, scale : {10},
                   watermark : {sWmPng}, sourceDir : {sPhotos},
                   targetDir : {sWatermarked}, force : {FALSE}]
    /\ mask = MaskAlpha(params.opacity)
    /\ \E w, h \in 1..MaxSide, ww, wh \in 1..(MaxSide + 1), kind \in AlphaKinds :
          draw = [pc |-> "canvas",
                  file |-> NameUniverse[1],
                  srcImage |-> SourcePixels(w, h),
                  scaledWatermark |-> WatermarkPixels(ww, wh, kind),
                  canvas |-> NewRGBA([w |-> 0, h |-> 0]),
                  watermarkOffset |-> [x |-> 0, y |-> 0]]
    /\ fsWatermark = Png(50, 25)
    /\ watermark = fsWatermark
    /\ fsSource = "dir"
    /\ srcDir = (NameUniverse[1] :> Jpeg(1, 1))
    /\ fsTarget = "created"
    /\ targetDir = <<>>
    /\ mpc = "wait"
    /\ files = <<NameUniverse[1]>>
    /\ wg = 1
    /\ tasks = <<>>
    /\ summary = NotReported
    /\ exited = FALSE
    /\ exitCode = 0
    /\ opened = {}
    /\ created = {}
    /\ wmLoads = 1
    /\ maskBuilds = 1

\* Lines 106-113: the canvas is allocated and the offset chosen.
DrawCanvas ==
    /\ draw.pc = "canvas"
    /\ draw' = [draw EXCEPT
                  !.pc = "base",
                  !.canvas = NewRGBA(draw.srcImage),
                  !.watermarkOffset =
                      WatermarkOffset(TaskArgs(draw.file).watermarkLocation,
                                      draw.srcImage, draw.scaledWatermark)]
    /\ UNCHANGED mainVars

\* DrawBase with the draw.Draw call of line 115 left out.
DrawBaseSkipped ==
    /\ draw.pc = "base"
    /\ draw' = [draw EXCEPT !.pc = "watermark"]
    /\ UNCHANGED mainVars

\* Line 115.
DrawBase ==
    /\ draw.pc = "base"
    /\ draw' = [draw EXCEPT
                  !.pc = "watermark",
                  !.canvas = DrawSrc(draw.canvas, Bounds(draw.srcImage),
                                     draw.srcImage, [x |-> 0, y |-> 0])]
    /\ UNCHANGED mainVars

\* Line 116: the destination rectangle is imgSize.Add(watermarkOffset).
DrawWatermark ==
    /\ draw.pc = "watermark"
    /\ draw' = [draw EXCEPT
                  !.pc = "done",
                  !.canvas = DrawMaskOver(draw.canvas,
                                          RectAdd(Bounds(draw.srcImage), draw.watermarkOffset),
                                          draw.scaledWatermark, [x |-> 0, y |-> 0], mask)]
    /\ UNCHANGED mainVars

NextDraw == DrawCanvas \/ DrawBase \/ DrawWatermark

SpecDraw == InitDraw /\ [][NextDraw]_vars

\* ------------------------------------------------------------------ claims

EligibleEntries == {n \in DOMAIN srcDir : Eligible(n)}
IneligibleEntries == {n \in DOMAIN srcDir : ~Eligible(n)}
OutputFiles == {n \in DOMAIN targetDir : targetDir[n].kind = "output"}
Composed(t) == tasks[t].canvas # NoCanvas
Fits(t) == tasks[t].canvas.wmW <= tasks[t].canvas.w /\ tasks[t].canvas.wmH <= tasks[t].canvas.h

\* C1: a task that has composed its canvas, with the scaled watermark no
\* larger than the base image, has placed the watermark at (W-w, H-h) when
\* the configured location is "right" and at (0, H-h) when it is "left".
C1_Placement ==
    \A t \in DOMAIN tasks :
        (Composed(t) /\ Fits(t)) =>
            LET c == tasks[t].canvas
            IN /\ params.location = sRight =>
                    (c.offX = c.w - c.wmW /\ c.offY = c.h - c.wmH)
               /\ params.location = sLeft =>
                    (c.offX = 0 /\ c.offY = c.h - c.wmH)

\* The run has completed without a fatal error: main got past wg.Wait and
\* printed the summary.
Completed == mpc = "done"

\* C2: when the run has completed without a fatal error, the files written to
\* the target directory are exactly the eligible entries of the source
\* directory, one per entry under the same name (so there are N of them), and
\* os.Create was called for no other path.
C2_OneOutputPerEligible ==
    Completed =>
        /\ OutputFiles = EligibleEntries
        /\ Cardinality(OutputFiles) = Cardinality(EligibleEntries)
        /\ {c[2] : c \in created} =
              {PathJoin(params.targetDir, n) : n \in EligibleEntries}
        /\ \A n \in IneligibleEntries :
              PathJoin(params.targetDir, n) \notin {c[2] : c \in created}

\* A completed run over two eligible entries and an ineligible one.
C2_Witness ==
    /\ Completed
    /\ Cardinality(EligibleEntries) = 2
    /\ Cardinality(IneligibleEntries) >= 1
    /\ Cardinality(OutputFiles) = 2

\* C3: once wg.Wait has returned (main is about to print, or has printed, the
\* summary), every entry has been dispatched, every task has run its
\* wg.Done, and every eligible entry's output is written.
C3_Barrier ==
    (mpc \in {"summary", "done"} \/ summary # NotReported) =>
        /\ Len(tasks) = Len(files)
        /\ \A t \in DOMAIN tasks :
              /\ tasks[t].pc = "done"
              /\ Eligible(tasks[t].args.file) =>
                    /\ tasks[t].args.file \in DOMAIN targetDir
                    /\ targetDir[tasks[t].args.file] = Written(tasks[t].canvas)

\* The summary is reported for a batch of three tasks, two of which wrote.
C3_Witness ==
    /\ summary # NotReported
    /\ Len(tasks) = 3
    /\ Cardinality(OutputFiles) = 2

\* C4: the count in the summary is the number of eligible entries.
C4_CountIsEligible ==
    summary # NotReported => summary = Cardinality(EligibleEntries)

\* round(opacity / 100 * 255), halves up.
RoundedAlpha(opacity) == (opacity * 255 + 50) \div 100

\* C5: the mask's alpha is round(opacity / 100 * 255).
C5_MaskIsScaledOpacity ==
    mask # NoMask => mask = RoundedAlpha(params.opacity)

\* A task is inside log.Fatalf after a failed open, decode, create or encode.
TaskFailed == \E t \in DOMAIN tasks : tasks[t].pc = "fatal"

InFlight(t) == tasks[t].pc \in {"start", "open", "decode", "compose", "create", "encode", "return"}

\* C6: while a task is in its fatal error the summary is not reported and
\* main is not past wg.Wait; a failed task stays failed (it never runs its
\* wg.Done); the process then ends with status 1, and once the process has
\* ended nothing changes any more.
C6_FatalAbort ==
    /\ [](TaskFailed =>
            /\ summary = NotReported
            /\ mpc \notin {"summary", "done"}
            /\ wg > 0
            /\ exited => exitCode = 1)
    /\ [][(TaskFailed => TaskFailed') /\ (exited => UNCHANGED vars)]_vars

\* The process has ended on one task's failure while another task had
\* finished and a third was still running.
C6_Witness ==
    /\ exited /\ exitCode = 1
    /\ summary = NotReported
    /\ \E t, u, v \in DOMAIN tasks :
          /\ tasks[t].pc = "fatal"
          /\ tasks[u].pc = "done"
          /\ tasks[v].pc \in {"decode", "compose", "create", "encode"}

\* C7: with a configuration error in the flags and the file system the run
\* never gets past the pre-flight checks: nothing is listed, dispatched,
\* opened or created, and the process ends with status 1.
C7_ConfigErrorBeforeWork ==
    ConfigError(params, fsWatermark, fsSource, fsTarget) =>
        /\ mpc \in {"checkWatermark", "checkPng", "checkSource", "checkTarget", "fatal"}
        /\ tasks = <<>> /\ files = <<>> /\ wg = 0
        /\ opened = {} /\ created = {} /\ OutputFiles = {}
        /\ watermark = NoImage /\ mask = NoMask
        /\ exited => exitCode = 1

\* The run ended at the target directory check, the other three checks
\* passed, with an eligible entry waiting in the source directory.
C7_Witness ==
    /\ exited
    /\ fsTarget = "dir" /\ ~params.force
    /\ fsWatermark.kind = "png" /\ HasSuffix(params.watermark, sPng)
    /\ fsSource = "dir"
    /\ EligibleEntries # {}

\* C8: the task of an ineligible entry only skips: it never opens or decodes
\* the entry, never composes or creates anything and is never in a fatal
\* error; and a completed run has written every eligible entry's output,
\* whatever ineligible entries the directory holds.
C8_IneligibleOnlySkipped ==
    /\ \A t \in DOMAIN tasks :
          ~Eligible(tasks[t].args.file) =>
              /\ tasks[t].pc \in {"start", "return", "done"}
              /\ tasks[t].srcImage = NoImage
              /\ tasks[t].canvas = NoCanvas
              /\ PathJoin(tasks[t].args.sourceDir, tasks[t].args.file) \notin opened
              /\ \A c \in created : c[1] # t
    /\ Completed => EligibleEntries \subseteq OutputFiles

\* A completed run whose directory holds a broken or unreadable ineligible
\* entry next to an eligible one.
C8_Witness ==
    /\ Completed
    /\ \E n \in IneligibleEntries : srcDir[n].kind \in {"corrupt", "unreadable"}
    /\ EligibleEntries # {}
    /\ EligibleEntries \subseteq OutputFiles
    /\ \A t \in DOMAIN tasks : tasks[t].pc = "done"

\* C9: every os.Create of a task is for the target directory joined with
\* that task's own file name, a task creates one path only, and two tasks
\* never create the same path.
C9_DistinctOutputPaths ==
    \A c \in created :
        /\ c[2] = PathJoin(params.targetDir, files[c[1]])
        /\ \A d \in created :
              /\ c[1] = d[1] => c[2] = d[2]
              /\ c[1] # d[1] => c[2] # d[2]

\* Two tasks are writing their output files at the same time.
C9_Witness ==
    \E t, u \in DOMAIN tasks :
        /\ t # u
        /\ tasks[t].pc = "encode" /\ tasks[u].pc = "encode"
        /\ \E c, d \in created : c[1] = t /\ d[1] = u

\* Once main has reached the dispatch loop, a step leaves the watermark and
\* the mask as they are and builds neither again.
SharedKept ==
    mpc \in {"dispatch", "wait", "summary", "done"} =>
        /\ watermark' = watermark /\ mask' = mask
        /\ wmLoads' = wmLoads /\ maskBuilds' = maskBuilds

\* C10: when the first task is dispatched the watermark has been decoded
\* once and the mask built once; from then on no step changes either of them
\* or builds them again.
C10_SharedReadOnly ==
    /\ [](tasks # <<>> =>
            /\ wmLoads = 1 /\ maskBuilds = 1
            /\ watermark = fsWatermark
            /\ mask = MaskAlpha(params.opacity))
    /\ [][SharedKept]_vars

\* Two tasks have read the watermark and the mask, one of them is done.
C10_Witness ==
    /\ wmLoads = 1 /\ maskBuilds = 1
    /\ \E t, u \in DOMAIN tasks :
          /\ t # u
          /\ tasks[t].pc = "done" /\ Composed(t)
          /\ Composed(u) /\ InFlight(u)

\* The task of SpecDraw has run line 116.
Drawn == draw.pc = "done"

\* The canvas pixel p lies under the watermark placed at the task's offset.
InFootprint(p) ==
    InRect(p, RectAdd(Bounds(draw.scaledWatermark), draw.watermarkOffset))

\* The watermark pixel that lands on the canvas pixel p.
WatermarkAt(p) ==
    draw.scaledWatermark.pix[<<p[1] - draw.watermarkOffset.x,
                               p[2] - draw.watermarkOffset.y>>]

WatermarkAlphaIs(a) ==
    \A p \in DOMAIN draw.scaledWatermark.pix : draw.scaledWatermark.pix[p].a = a

\* C11: with every watermark pixel opaque and the mask 255, the composed
\* canvas has the source image's bounds, each of its pixels under the
\* watermark is that watermark pixel and each other pixel is the source
\* image's pixel.
C11_OpaqueReplaces ==
    (Drawn /\ mask = 255 /\ WatermarkAlphaIs(255)) =>
        /\ draw.canvas.w = draw.srcImage.w /\ draw.canvas.h = draw.srcImage.h
        /\ DOMAIN draw.canvas.pix = DOMAIN draw.srcImage.pix
        /\ \A p \in DOMAIN draw.canvas.pix :
              IF InFootprint(p)
              THEN draw.canvas.pix[p] = [c |-> WatermarkAt(p).c, a |-> 255]
              ELSE draw.canvas.pix[p] = [c |-> draw.srcImage.pix[p], a |-> 255]

\* An opaque watermark drawn through mask 255 onto an image that it covers
\* only in part.
C11_Witness ==
    /\ Drawn /\ mask = 255 /\ WatermarkAlphaIs(255)
    /\ \E p, q \in DOMAIN draw.canvas.pix : InFootprint(p) /\ ~InFootprint(q)

\* C12: with every watermark pixel's alpha 0 the composed canvas is the
\* source image, pixel for pixel, whatever the mask.
C12_ClearLeavesBase ==
    (Drawn /\ WatermarkAlphaIs(0)) =>
        /\ DOMAIN draw.canvas.pix = DOMAIN draw.srcImage.pix
        /\ \A p \in DOMAIN draw.canvas.pix :
              draw.canvas.pix[p] = [c |-> draw.srcImage.pix[p], a |-> 255]

\* A clear watermark drawn through a mask that is not 0 over the whole of a
\* 2 x 2 image.
C12_Witness ==
    /\ Drawn /\ WatermarkAlphaIs(0) /\ mask = 186
    /\ Cardinality(DOMAIN draw.canvas.pix) = 4
    /\ \A p \in DOMAIN draw.canvas.pix : InFootprint(p)

\* The placed watermark reaches past an edge of the source image.
PastAnEdge ==
    LET f == RectAdd(Bounds(draw.scaledWatermark), draw.watermarkOffset)
    IN f.minX < 0 \/ f.minY < 0 \/ f.maxX > draw.srcImage.w \/ f.maxY > draw.srcImage.h

\* C13: when the placed watermark reaches past an edge of the source image,
\* line 116 still completes, the canvas keeps the source image's pixels and
\* no others, each canvas pixel under the watermark is that watermark pixel
\* blended over the source pixel through the mask, and each other pixel is
\* the source pixel.
C13_Clipped ==
    (Drawn /\ PastAnEdge) =>
        /\ DOMAIN draw.canvas.pix = DOMAIN draw.srcImage.pix
        /\ \A p \in DOMAIN draw.canvas.pix :
              IF InFootprint(p)
              THEN draw.canvas.pix[p] =
                      OverPixel([c |-> draw.srcImage.pix[p], a |-> 255],
                                WatermarkAt(p), mask * 257)
              ELSE draw.canvas.pix[p] = [c |-> draw.srcImage.pix[p], a |-> 255]

\* A watermark wider than the image and less tall has been drawn: part of it
\* is cut off and part of the image is left uncovered.
C13_Witness ==
    /\ Drawn /\ PastAnEdge
    /\ draw.scaledWatermark.w > draw.srcImage.w
    /\ draw.scaledWatermark.h < draw.srcImage.h
    /\ mask = 255 /\ WatermarkAlphaIs(255)
    /\ \E p, q \in DOMAIN draw.canvas.pix :
          /\ InFootprint(p) /\ ~InFootprint(q)
          /\ draw.canvas.pix[p].c = WatermarkAt(p).c
          /\ draw.canvas.pix[p].c # draw.srcImage.pix[p]

OtherLocation == params.location \notin {sLeft, sRight}

\* C14: with a location other than "left" and "right", the flags are
\* rejected by no check (a run whose watermark and directories are in order
\* is never in main's fatal error and ends only after the summary or on a
\* task's failure), and every composed canvas has the watermark at (0,0).
C14_OtherLocationAtOrigin ==
    OtherLocation =>
        /\ (/\ ~ConfigError(params, fsWatermark, fsSource, fsTarget)
            /\ fsWatermark.kind = "png" /\ fsSource = "dir") =>
                /\ mpc # "fatal"
                /\ exited => (mpc = "done" \/ TaskFailed)
        /\ \A t \in DOMAIN tasks :
              Composed(t) => (tasks[t].canvas.offX = 0 /\ tasks[t].canvas.offY = 0)

\* A completed run with location "center" that drew a 40 x 20 watermark on
\* a 100 x 200 image.
C14_Witness ==
    /\ params.location = sCenter
    /\ Completed
    /\ \E t \in DOMAIN tasks :
          /\ Composed(t)
          /\ tasks[t].canvas.w = 100 /\ tasks[t].canvas.wmW = 40
          /\ tasks[t].canvas.offX = 0 /\ tasks[t].canvas.offY = 0

\* round(f * H) for the scale f given in tenths, halves up.
RoundedHeight(scale, dy) == (scale * dy + 5) \div 10

Distance(a, b) == IF a >= b THEN a - b ELSE b - a

\* C15: the scaled watermark of a composed task is within one pixel of
\* round(f * H) high, f the configured scale (0.1 to 1.0 here) and H the
\* source image's height.
C15_ScaledHeight ==
    \A t \in DOMAIN tasks :
        Composed(t) =>
            Distance(tasks[t].canvas.wmH,
                     RoundedHeight(params.scale, tasks[t].canvas.h)) <= 1

DoneTasks == {t \in DOMAIN tasks : tasks[t].pc = "done"}

\* C16: from wg.Add on, the counter is the number of entries whose task has
\* not run its wg.Done (each task signals once, the counter never goes below
\* zero); and under fair scheduling every run that reaches wg.Add goes on to
\* report the summary, unless a task hits a fatal error.
C16_Termination ==
    /\ [](mpc \in {"dispatch", "wait", "summary", "done"} =>
            /\ wg = Len(files) - Cardinality(DoneTasks)
            /\ wg >= 0)
    /\ (mpc = "wgAdd") ~> (summary # NotReported \/ TaskFailed)

\* The summary is reported for a batch of three entries, some eligible and
\* some not, after each task has signalled.
C16_Witness ==
    /\ summary = 3 /\ wg = 0
    /\ Cardinality(DoneTasks) = 3
    /\ EligibleEntries # {} /\ IneligibleEntries # {}

\* The canvas for entry n as a function of the run's inputs alone: the entry's
\* source image, the watermark file, and the scale, opacity and location
\* argument given on the command line.
ExpectedCanvas(n) ==
    LET imgSize == srcDir[n]
        wmSize == ResizeBounds(TargetHeight(params.scale, imgSize.h), fsWatermark)
        off == WatermarkOffset(TaskArgs(n).watermarkLocation, imgSize, wmSize)
    IN [w |-> imgSize.w, h |-> imgSize.h, wmW |-> wmSize.w, wmH |-> wmSize.h,
        offX |-> off.x, offY |-> off.y, alpha |-> MaskAlpha(params.opacity)]

\* C17: whatever the interleaving of the tasks' steps, a written output file
\* holds the canvas determined by its own source image and the shared
\* watermark, mask, location and scale, and a run that completes without a
\* fatal error leaves exactly the eligible entries' outputs: the final files
\* are a function of the inputs, not of the schedule or of the other entries.
C17_InterleavingIndependent ==
    /\ \A n \in OutputFiles :
          /\ n \in EligibleEntries
          /\ targetDir[n] = Written(ExpectedCanvas(n))
    /\ Completed => OutputFiles = EligibleEntries

\* Two tasks running out of dispatch order: the second has written its
\* output while the first, with a different canvas, has not yet created its
\* file.
C17_Witness ==
    /\ Len(tasks) >= 2
    /\ Composed(1) /\ tasks[1].pc = "create"
    /\ tasks[1].args.file \notin OutputFiles
    /\ tasks[2].args.file \in OutputFiles
    /\ tasks[1].canvas # tasks[2].canvas

====
